---- MODULE Spec2Model ----
(***************************************************************************)
(* Orchestrator of the load-test platform: validation of a submission      *)
(* (scenario.json, variables.json, optional users.csv), the single-slot    *)
(* store of validated artifacts under UPLOAD_DIR, and the execute call     *)
(* that builds a worker request from the store.                            *)
(*                                                                         *)
(* Text is a sequence of symbols.  The symbols "user." and "env." stand    *)
(* for those five and four characters, "{" and "}" for the braces, " "     *)
(* for white space, "e_acute" for one character outside ASCII, "quote" for *)
(* a double quote inside a string value, "\\" for a backslash, every other *)
(* symbol for one ordinary character.                                      *)
(***************************************************************************)
EXTENDS Integers, Sequences, FiniteSets, TLC

VARIABLES store, inflight, last, lastOk, now

vars == <<store, inflight, last, lastOk, now>>

(***************************************************************************)
(* Bounds of the model.                                                    *)
(***************************************************************************)
NumClients == 2
MaxClock == 1
MaxSteps == 2
MaxRuns == 2

(***************************************************************************)
(* Small helpers on sequences.                                             *)
(***************************************************************************)
Contains(s, x) == \E i \in 1..Len(s) : s[i] = x

Range(s) == {s[i] : i \in 1..Len(s)}

\* Python's `x in text` for two strings: x occurs as a contiguous substring.
IsSubstring(x, text) ==
    \E i \in 0..(Len(text) - Len(x)) : SubSeq(text, i + 1, i + Len(x)) = x

\* str.strip(): leading and trailing white space removed.
RECURSIVE LStrip(_)
LStrip(s) == IF s # <<>> /\ Head(s) = " " THEN LStrip(Tail(s)) ELSE s

RECURSIVE RStrip(_)
RStrip(s) ==
    IF s # <<>> /\ s[Len(s)] = " " THEN RStrip(SubSeq(s, 1, Len(s) - 1)) ELSE s

Strip(s) == RStrip(LStrip(s))

\* An error of a report: its kind, and the step number and the name it is about.
Err(k, i, name) == [k |-> k, i |-> i, name |-> name]

(***************************************************************************)
(* Template scanner and variable classifier.                               *)
(***************************************************************************)
\* [^}]+ is greedy: the run of symbols other than "}" that starts at i.
RECURSIVE RunEnd(_, _)
RunEnd(text, i) ==
    IF i > Len(text) \/ text[i] = "}" THEN i ELSE RunEnd(text, i + 1)

\* re.findall(r'\{\{([^}]+)\}\}', text): leftmost, non-overlapping matches.
RECURSIVE FindAll(_, _)
FindAll(text, i) ==
    IF i + 1 > Len(text) THEN <<>>
    ELSE IF text[i] = "{" /\ text[i + 1] = "{"
         THEN LET j == RunEnd(text, i + 2)
              IN  IF /\ j > i + 2
                     /\ j + 1 <= Len(text)
                     /\ text[j] = "}"
                     /\ text[j + 1] = "}"
                  THEN <<SubSeq(text, i + 2, j - 1)>> \o FindAll(text, j + 2)
                  ELSE FindAll(text, i + 1)
         ELSE FindAll(text, i + 1)

extract_variables_from_text(text) == FindAll(text, 1)

\* var.startswith(prefix), the prefix being one symbol of the model.
StartsWith(var, prefix) == var # <<>> /\ Head(var) = prefix

\* var.replace(prefix, ""): every occurrence of the prefix is removed.
Replace(var, prefix) == SelectSeq(var, LAMBDA c : c # prefix)

AppendNew(s, x) == IF Contains(s, x) THEN s ELSE Append(s, x)

RECURSIVE Classify(_, _)
Classify(all_vars, variables) ==
    IF all_vars = <<>> THEN variables
    ELSE LET var == Head(all_vars)
             nxt == IF StartsWith(var, "user.")
                    THEN [variables EXCEPT
                            !.user = AppendNew(@, Replace(var, "user."))]
                    ELSE IF StartsWith(var, "env.")
                    THEN [variables EXCEPT
                            !.env = AppendNew(@, Replace(var, "env."))]
                    ELSE [variables EXCEPT !.extract = AppendNew(@, var)]
         IN  Classify(Tail(all_vars), nxt)

\* What json.dumps writes for one character of a string value: with the
\* default ensure_ascii a character outside ASCII becomes its \uXXXX escape,
\* a double quote and a backslash get a backslash in front.
EscapeChar(c) ==
    IF c = "e_acute" THEN <<"\\", "u", "0", "0", "e", "9">>
    ELSE IF c = "quote" THEN <<"\\", "quote">>
    ELSE IF c = "\\" THEN <<"\\", "\\">>
    ELSE <<c>>

RECURSIVE EscapeText(_)
EscapeText(text) ==
    IF text = <<>> THEN <<>> ELSE EscapeChar(Head(text)) \o EscapeText(Tail(text))

\* json.dumps(scenario_data): the serialised text the scanner reads.  The
\* field text holds the characters of the document's string values.
json_dumps(scenario_data) == EscapeText(scenario_data.text)

extract_variables_from_scenario(scenario_data) ==
    Classify(extract_variables_from_text(json_dumps(scenario_data)),
             [user |-> <<>>, env |-> <<>>, extract |-> <<>>])

(***************************************************************************)
(* Structural validators.                                                  *)
(***************************************************************************)
HttpMethods == {"GET", "POST", "PUT", "DELETE", "PATCH"}

\* The errors of step number i (the body of the loop over the steps).
StepErrors(step, i) ==
    IF ~step.isObj THEN <<Err("step_not_object", i, <<>>)>>
    ELSE (IF ~step.hasName
          THEN <<Err("step_missing_field", i, <<"name">>)>> ELSE <<>>)
      \o (IF step.method = "missing"
          THEN <<Err("step_missing_field", i, <<"method">>)>> ELSE <<>>)
      \o (IF ~step.hasUrl
          THEN <<Err("step_missing_field", i, <<"url">>)>> ELSE <<>>)
      \o (IF step.method # "missing" /\ step.method \notin HttpMethods
          THEN <<Err("step_bad_method", i, <<step.method>>)>> ELSE <<>>)

RECURSIVE AllStepErrors(_, _)
AllStepErrors(steps, i) ==
    IF i > Len(steps) THEN <<>>
    ELSE StepErrors(steps[i], i) \o AllStepErrors(steps, i + 1)

\* A length test that no list meets.
EmptyStepsErrorNever(steps) ==
    IF Len(steps) < 0 THEN <<Err("no_steps", 0, <<>>)>> ELSE <<>>

\* if len(scenario_data["steps"]) == 0
EmptyStepsError(steps) ==
    IF Len(steps) = 0 THEN <<Err("no_steps", 0, <<>>)>> ELSE <<>>

validate_scenario_structure(scenario_data) ==
    IF scenario_data.root # "object"
    THEN <<Err("scenario_not_object", 0, <<>>)>>
    ELSE LET nameErr == IF ~scenario_data.hasName
                        THEN <<Err("scenario_no_name", 0, <<>>)>> ELSE <<>>
         IN  IF scenario_data.steps = "missing"
             THEN nameErr \o <<Err("scenario_no_steps_field", 0, <<>>)>>
             ELSE IF scenario_data.steps # "list"
             THEN nameErr \o <<Err("steps_not_list", 0, <<>>)>>
             ELSE nameErr \o EmptyStepsError(scenario_data.items)
                          \o AllStepErrors(scenario_data.items, 1)

\* isinstance(v, int): Python's bool is a subclass of int, True = 1, False = 0.
IsInstanceInt(v) == v.kind \in {"int", "bool"}

\* The check of virtualUsers (mode users) or totalRequests (mode requests).
CountErrors(v, missing, notPositive) ==
    IF v.kind = "absent" THEN <<Err(missing, 0, <<>>)>>
    ELSE IF ~IsInstanceInt(v) \/ v.n <= 0 THEN <<Err(notPositive, 0, <<>>)>>
    ELSE <<>>

validate_variables_structure(variables_data) ==
    IF variables_data.root # "object"
    THEN <<Err("variables_not_object", 0, <<>>)>>
    ELSE (IF variables_data.mode.kind = "absent"
          THEN <<Err("mode_missing", 0, <<>>)>>
          ELSE IF ~(variables_data.mode.kind = "str"
                    /\ variables_data.mode.s \in {"users", "requests"})
          THEN <<Err("mode_invalid", 0, <<>>)>>
          ELSE <<>>)
      \o (IF variables_data.mode.kind = "str" /\ variables_data.mode.s = "users"
          THEN CountErrors(variables_data.virtualUsers,
                           "virtualUsers_missing", "virtualUsers_not_positive")
          ELSE <<>>)
      \o (IF variables_data.mode.kind = "str"
             /\ variables_data.mode.s = "requests"
          THEN CountErrors(variables_data.totalRequests,
                           "totalRequests_missing", "totalRequests_not_positive")
          ELSE <<>>)

\* [col.strip() for col in headers if col.strip()]
RECURSIVE CleanColumns(_)
CleanColumns(headers) ==
    IF headers = <<>> THEN <<>>
    ELSE (IF Strip(Head(headers)) # <<>> THEN <<Strip(Head(headers))>> ELSE <<>>)
         \o CleanColumns(Tail(headers))

\* any(cell.strip() for cell in row)
RowHasData(row) == \E i \in 1..Len(row) : Strip(row[i]) # <<>>

\* csv_content is the sequence of the file's lines, each a sequence of cells;
\* next(csv_reader, None) is None (no line) or the first line's cells.
validate_csv_structure(csv_content) ==
    IF csv_content = <<>> \/ Head(csv_content) = <<>>
    THEN [errors |-> <<Err("csv_no_headers", 0, <<>>)>>, columns |-> <<>>]
    ELSE LET columns == CleanColumns(Head(csv_content))
             rows == Tail(csv_content)
             row_count == Cardinality({i \in 1..Len(rows) : RowHasData(rows[i])})
         IN  IF Len(columns) = 0
             THEN [errors |-> <<Err("csv_no_valid_columns", 0, <<>>)>>,
                   columns |-> columns]
             ELSE [errors |-> IF row_count = 0
                              THEN <<Err("csv_no_data", 0, <<>>)>> ELSE <<>>,
                   columns |-> columns]

(***************************************************************************)
(* Cross-reference validator.                                              *)
(***************************************************************************)
\* for user_var in scenario_vars["user"]: if user_var not in csv_columns
\* One error for every listed name that is no column, in list order.
MissingColumnErrors(names, csv_columns) ==
    LET miss == SelectSeq(names, LAMBDA x : ~Contains(csv_columns, x))
    IN  [i \in 1..Len(miss) |-> Err("missing_column", 0, miss[i])]

\* variables_data.get("environment", {}) supports `in` when it is a mapping
\* (membership among the keys), a list (among the elements) or a string
\* (substring); for null, a number or a boolean `in` raises TypeError.
EnvSupportsIn(env_section) ==
    env_section.kind \in {"absent", "object", "array", "str"}

\* env_var in env_section
InEnv(env_var, env_section) ==
    IF env_section.kind \in {"object", "array"} THEN env_var \in env_section.keys
    ELSE IF env_section.kind = "str" THEN IsSubstring(env_var, env_section.chars)
    ELSE FALSE

\* for env_var in scenario_vars["env"]: if env_var not in env_section
\* One error for every listed name the environment does not hold, in order.
MissingEnvErrors(names, env_section) ==
    LET miss == SelectSeq(names, LAMBDA x : ~InEnv(x, env_section))
    IN  [i \in 1..Len(miss) |-> Err("missing_env", 0, miss[i])]

\* if variables_data.get("mode") == "users" and not csv_columns
ModeMismatchError(variables_data, csv_columns) ==
    IF /\ variables_data.mode.kind = "str"
       /\ variables_data.mode.s = "users"
       /\ Len(csv_columns) = 0
    THEN <<Err("mode_users_without_csv", 0, <<>>)>> ELSE <<>>

\* The result is the error list, or raised when the membership test of the
\* second loop raises (the loop body runs once the env category is non-empty).
validate_cross_file_consistency(scenario_vars, variables_data, csv_columns) ==
    LET env_section == variables_data.environment
        raised == scenario_vars.env # <<>> /\ ~EnvSupportsIn(env_section)
        userErrs == MissingColumnErrors(scenario_vars.user, csv_columns)
        envErrs == MissingEnvErrors(scenario_vars.env, env_section)
    IN  [raised |-> raised,
         errors |-> IF raised THEN <<>>
                    ELSE userErrs \o envErrs
                         \o ModeMismatchError(variables_data, csv_columns)]

(***************************************************************************)
(* The validate call up to its save step (the report's parts and what ran). *)
(***************************************************************************)
NoVars == [user |-> <<>>, env |-> <<>>, extract |-> <<>>]

NoAnalysis ==
    [set |-> FALSE, variables_found |-> NoVars, csv_columns |-> <<>>,
     files_saved |-> FALSE]

\* The report of a submission one of whose parts does not decode: one error.
ParseFailure(kind) ==
    [raised |-> FALSE, parsed |-> FALSE,
     errors |-> <<Err(kind, 0, <<>>)>>, warnings |-> <<>>,
     analysis |-> NoAnalysis,
     scenario_errors |-> <<>>, variables_errors |-> <<>>, csv_errors |-> <<>>,
     crossRan |-> FALSE, consistency_errors |-> <<>>]

\* A gate that looks at the scenario check alone.
CrossGateScenarioOnly(scenario_errors, variables_errors) ==
    scenario_errors = <<>>

\* if not scenario_errors and not variables_errors
CrossGate(scenario_errors, variables_errors) ==
    scenario_errors = <<>> /\ variables_errors = <<>>

Warnings(sub, scenario_vars) ==
    (IF sub.users.enc = "absent" /\ scenario_vars.user # <<>>
     THEN <<[k |-> "csv_missing", names |-> scenario_vars.user]>> ELSE <<>>)
    \o (IF scenario_vars.user = <<>> /\ sub.users.enc # "absent"
        THEN <<[k |-> "csv_unused", names |-> <<>>]>> ELSE <<>>)

\* Steps 3 to 5 of validate_files, from the results of the checks.
ChecksResult(sub, csv, scenario_errors, variables_errors, scenario_vars, crossRan, cross) ==
    [raised |-> cross.raised, parsed |-> TRUE,
     errors |-> csv.errors \o scenario_errors \o variables_errors
                \o cross.errors,
     warnings |-> IF cross.raised THEN <<>>
                  ELSE Warnings(sub, scenario_vars),
     analysis |-> [set |-> TRUE, variables_found |-> scenario_vars,
                   csv_columns |-> csv.columns, files_saved |-> FALSE],
     scenario_errors |-> scenario_errors,
     variables_errors |-> variables_errors,
     csv_errors |-> csv.errors,
     crossRan |-> crossRan,
     consistency_errors |-> cross.errors]

\* Step 4: the cross-reference validator runs behind its gate.
CrossStep(sub, csv, scenario_errors, variables_errors, scenario_vars, crossRan) ==
    ChecksResult(sub, csv, scenario_errors, variables_errors, scenario_vars,
                 crossRan,
                 IF crossRan
                 THEN validate_cross_file_consistency(
                          scenario_vars, sub.variables.doc, csv.columns)
                 ELSE [raised |-> FALSE, errors |-> <<>>])

GateStep(sub, csv, scenario_errors, variables_errors, scenario_vars) ==
    CrossStep(sub, csv, scenario_errors, variables_errors, scenario_vars,
              CrossGate(scenario_errors, variables_errors))

\* The dataset check (while the parts are read), then steps 2 and 3.
Checks(sub) ==
    GateStep(sub,
             IF sub.users.enc = "absent"
             THEN [errors |-> <<>>, columns |-> <<>>]
             ELSE validate_csv_structure(sub.users.lines),
             validate_scenario_structure(sub.scenario.doc),
             validate_variables_structure(sub.variables.doc),
             extract_variables_from_scenario(sub.scenario.doc))

\* An order of step 1 in which the dataset is checked before the variables
\* are decoded.
AnalyseDatasetFirst(sub) ==
    IF sub.scenario.enc = "badutf8" THEN ParseFailure("read_error")
    ELSE IF sub.scenario.enc = "badjson" THEN ParseFailure("json_error")
    ELSE IF sub.users.enc = "badutf8" THEN ParseFailure("read_error")
    ELSE IF sub.variables.enc \in {"badutf8", "badjson"}
    THEN [ParseFailure(IF sub.variables.enc = "badjson"
                       THEN "json_error" ELSE "read_error")
            EXCEPT !.csv_errors = IF sub.users.enc = "absent" THEN <<>>
                                  ELSE validate_csv_structure(sub.users.lines).errors,
                   !.errors = (IF sub.users.enc = "absent" THEN <<>>
                               ELSE validate_csv_structure(sub.users.lines).errors)
                              \o @]
    ELSE Checks(sub)

\* Steps 1 to 5 of validate_files: the scenario is read and decoded first,
\* then the variables, then the dataset when there is one.
Analyse(sub) ==
    IF sub.scenario.enc = "badutf8" THEN ParseFailure("read_error")
    ELSE IF sub.scenario.enc = "badjson" THEN ParseFailure("json_error")
    ELSE IF sub.variables.enc = "badutf8" THEN ParseFailure("read_error")
    ELSE IF sub.variables.enc = "badjson" THEN ParseFailure("json_error")
    ELSE IF sub.users.enc = "badutf8" THEN ParseFailure("read_error")
    ELSE Checks(sub)

(***************************************************************************)
(* The store of validated artifacts: the three files of UPLOAD_DIR.  A     *)
(* file is absent, holds data, or is truncated (opened for writing, the    *)
(* write failed).  `by` records the status of the report returned by the   *)
(* validate call that wrote the file last.                                 *)
(***************************************************************************)
NoScenario ==
    [root |-> "none", hasName |-> FALSE, steps |-> "missing", items |-> <<>>,
     text |-> <<>>]

NoValue == [kind |-> "absent", n |-> 0]

NoText == [kind |-> "absent", s |-> ""]

NoEnv == [kind |-> "absent", keys |-> {}, chars |-> <<>>]

NoVariables ==
    [root |-> "none", mode |-> NoText, virtualUsers |-> NoValue,
     totalRequests |-> NoValue, duration |-> NoText, warmup |-> NoText,
     environment |-> NoEnv]

AbsentScenario == [kind |-> "absent", doc |-> NoScenario, by |-> "none"]

AbsentVariables == [kind |-> "absent", doc |-> NoVariables, by |-> "none"]

AbsentUsers == [kind |-> "absent", lines |-> <<>>, by |-> "none"]

EmptyStore ==
    [scenario |-> AbsentScenario, variables |-> AbsentVariables,
     users |-> AbsentUsers]

\* How a save can fail: not at all (at = 0), or at the write of file number
\* `at` (1 scenario.json, 2 variables.json, 3 users.csv), either in open(),
\* which leaves the file as it was, or after open() has truncated it.
SaveFailures ==
    {[at |-> 0, how |-> "none"]}
    \cup {[at |-> k, how |-> h] : k \in 1..3, h \in {"open", "write"}}

\* Whether the save step of a submission raises under this failure.
SaveRaises(sub, fail) ==
    fail.at \in 1..2 \/ (fail.at = 3 /\ sub.users.enc # "absent")

\* open(path, "w") followed by the dump or write of file number k.
WriteFile(old, new, absent, k, fail) ==
    IF fail.at = 0 \/ k < fail.at THEN new
    ELSE IF k > fail.at THEN old
    ELSE IF fail.how = "open" THEN old
    ELSE [absent EXCEPT !.kind = "truncated", !.by = new.by]

\* Step 6 of validate_files: the three writes, in order, the third only
\* when a dataset was submitted.
Save(st, sub, fail) ==
    LET by == IF SaveRaises(sub, fail) THEN "error" ELSE "success"
    IN  [scenario |->
             WriteFile(st.scenario,
                       [kind |-> "data", doc |-> sub.scenario.doc, by |-> by],
                       AbsentScenario, 1, fail),
         variables |->
             WriteFile(st.variables,
                       [kind |-> "data", doc |-> sub.variables.doc, by |-> by],
                       AbsentVariables, 2, fail),
         users |->
             IF sub.users.enc = "absent" THEN st.users
             ELSE WriteFile(st.users,
                            [kind |-> "data", lines |-> sub.users.lines,
                             by |-> by],
                            AbsentUsers, 3, fail)]

\* if not errors: whether the save step is entered.
SaveGate(errors) == errors = <<>>

Message(text, n) == [text |-> text, n |-> n]

\* A report whose status is settled before the save step is taken.
ReportSettledBeforeSave(a, errors, analysis) ==
    IF a.raised
    THEN [status |-> "raised", message |-> Message("", 0),
          errors |-> <<>>, warnings |-> <<>>, analysis |-> NoAnalysis]
    ELSE IF a.errors # <<>>
    THEN [status |-> "error",
          message |-> Message("Validation echouee", Len(errors)),
          errors |-> errors, warnings |-> a.warnings, analysis |-> analysis]
    ELSE [status |-> "success",
          message |-> Message("Tous les fichiers sont valides", 0),
          errors |-> errors, warnings |-> a.warnings, analysis |-> analysis]

\* The report returned: status "raised" stands for the handler ending in an
\* unhandled exception, when no report is returned.
Report(a, errors, analysis) ==
    IF a.raised
    THEN [status |-> "raised", message |-> Message("", 0),
          errors |-> <<>>, warnings |-> <<>>, analysis |-> NoAnalysis]
    ELSE IF ~a.parsed
    THEN [status |-> "error",
          message |-> Message(IF a.errors[1].k = "json_error"
                              THEN "Erreur de parsing des fichiers JSON"
                              ELSE "Erreur de lecture des fichiers", 0),
          errors |-> a.errors, warnings |-> <<>>, analysis |-> NoAnalysis]
    ELSE IF errors # <<>>
    THEN [status |-> "error",
          message |-> Message("Validation echouee", Len(errors)),
          errors |-> errors, warnings |-> a.warnings, analysis |-> analysis]
    ELSE [status |-> "success",
          message |-> Message("Tous les fichiers sont valides", 0),
          errors |-> <<>>, warnings |-> a.warnings, analysis |-> analysis]

\* A save step that reports files_saved only when it changed the store.
SaveAndReportWhenChanged(a, sub, st, fail, saving, saveRaised) ==
    [report |-> Report(a,
                       IF saveRaised
                       THEN Append(a.errors, Err("save_error", 0, <<>>))
                       ELSE a.errors,
                       [a.analysis EXCEPT
                          !.files_saved = /\ saving
                                          /\ ~saveRaised
                                          /\ Save(st, sub, fail) # st]),
     store |-> IF saving THEN Save(st, sub, fail) ELSE st,
     saving |-> saving,
     saveRaised |-> saveRaised,
     checks |-> [parsed |-> a.parsed,
                 scenario_errors |-> a.scenario_errors,
                 variables_errors |-> a.variables_errors,
                 csv_errors |-> a.csv_errors,
                 crossRan |-> a.crossRan,
                 consistency_errors |-> a.consistency_errors]]

\* Steps 6 and 7 of validate_files, from the result a of steps 1 to 5.
SaveAndReport(a, sub, st, fail, saving, saveRaised) ==
    [report |-> Report(a,
                       IF saveRaised
                       THEN Append(a.errors, Err("save_error", 0, <<>>))
                       ELSE a.errors,
                       [a.analysis EXCEPT !.files_saved = saving /\ ~saveRaised]),
     store |-> IF saving THEN Save(st, sub, fail) ELSE st,
     saving |-> saving,
     saveRaised |-> saveRaised,
     checks |-> [parsed |-> a.parsed,
                 scenario_errors |-> a.scenario_errors,
                 variables_errors |-> a.variables_errors,
                 csv_errors |-> a.csv_errors,
                 crossRan |-> a.crossRan,
                 consistency_errors |-> a.consistency_errors]]

SaveStep(a, sub, st, fail, saving) ==
    SaveAndReport(a, sub, st, fail, saving, saving /\ SaveRaises(sub, fail))

GatedSave(a, sub, st, fail) ==
    SaveStep(a, sub, st, fail, ~a.raised /\ a.parsed /\ SaveGate(a.errors))

\* validate_files as a whole: the report returned, the store it leaves, and
\* what ran.
validate_files(sub, st, fail) == GatedSave(Analyse(sub), sub, st, fail)

(***************************************************************************)
(* The execute call.                                                       *)
(***************************************************************************)
\* The value csv.DictReader gives a raw key: the cell under its last
\* occurrence in the header (dict(zip(fieldnames, row))).
RawValue(fieldnames, row, key) ==
    row[CHOOSE i \in 1..Len(fieldnames) :
            /\ fieldnames[i] = key
            /\ \A j \in 1..Len(fieldnames) : fieldnames[j] = key => j <= i]

FirstPos(fieldnames, key) ==
    CHOOSE i \in 1..Len(fieldnames) :
        /\ fieldnames[i] = key
        /\ \A j \in 1..Len(fieldnames) : fieldnames[j] = key => i <= j

\* {k.strip(): v.strip() for k, v in row.items()}: of the raw keys that
\* strip to the same key, the one inserted last gives the value.
CleanRow(fieldnames, row) ==
    [k \in {Strip(c) : c \in Range(fieldnames)} |->
        LET raw == CHOOSE c \in Range(fieldnames) :
                       /\ Strip(c) = k
                       /\ \A d \in Range(fieldnames) :
                              Strip(d) = k =>
                                  FirstPos(fieldnames, d) <= FirstPos(fieldnames, c)
        IN  Strip(RawValue(fieldnames, row, raw))]

\* csv.DictReader skips the rows without a cell; a row shorter or longer
\* than the header gets a None value or a None key, whose .strip() raises,
\* and the except clause returns the empty list.
parse_csv_to_dict(csv_content) ==
    IF csv_content = <<>> THEN <<>>
    ELSE LET fieldnames == Head(csv_content)
             rows == SelectSeq(Tail(csv_content), LAMBDA r : r # <<>>)
         IN  IF \E i \in 1..Len(rows) : Len(rows[i]) # Len(fieldnames)
             THEN <<>>
             ELSE [i \in 1..Len(rows) |-> CleanRow(fieldnames, rows[i])]

\* variables_data.get(key, default)
Get(value, default) == IF value.kind = "absent" THEN default ELSE value

\* f"test_{int(datetime.now().timestamp())}": the text "test_" followed by
\* the clock's seconds; the empty sequence stands for the empty string.
TestId(seconds) == <<seconds>>

\* test_id when the missing-files branch returns.
MissingFilesTestId == <<>>

\* test_config and worker_request, built from what was read from the store.
BuildRequest(scenario_data, variables_data, users_data, seconds) ==
    [test_id |-> TestId(seconds),
     config |->
        [mode |-> Get(variables_data.mode, [kind |-> "str", s |-> "users"]),
         virtualUsers |-> Get(variables_data.virtualUsers,
                              [kind |-> "int", n |-> 1]),
         totalRequests |-> Get(variables_data.totalRequests,
                               [kind |-> "int", n |-> 100]),
         duration |-> Get(variables_data.duration, [kind |-> "str", s |-> "2m"]),
         warmup |-> Get(variables_data.warmup, [kind |-> "str", s |-> "30s"]),
         environment |-> Get(variables_data.environment,
                             [kind |-> "object", keys |-> {}, chars |-> <<>>]),
         scenario |-> scenario_data,
         usersData |-> users_data],
     timestamp |-> seconds]

\* What requests.post can end in: a reply with status 200 and a JSON body,
\* a reply with status 200 whose body does not decode, another status, a
\* timeout, a connection failure.
WorkerReplies == {"ok200", "badbody200", "http500", "timeout", "connerr"}

Outcome(status, test_id, message) ==
    [status |-> status, test_id |-> test_id, message |-> message]

\* The outcome that stands for the handler ending in an unhandled exception:
\* the except clauses read test_id before it was ever assigned.
UnboundTestId == Outcome("raised", <<>>, "UnboundLocalError")

\* A worker call that is sent again after a timeout or a connection failure.
PostRetried(request, reply) ==
    IF reply \in {"timeout", "connerr"} THEN <<request, request>>
    ELSE <<request>>

\* requests.post(...) is called once, whatever it ends in.
PostOnce(request, reply) == <<request>>

\* execute_test as a whole: the outcome returned and the requests sent.
execute_test(st, seconds, reply) ==
    IF st.scenario.kind = "absent" \/ st.variables.kind = "absent"
    THEN [outcome |-> Outcome("failed", MissingFilesTestId,
                              "Fichiers de configuration manquants"),
          requests |-> <<>>]
    ELSE IF st.scenario.kind = "truncated" \/ st.variables.kind = "truncated"
    THEN [outcome |-> UnboundTestId, requests |-> <<>>]
    ELSE LET users_data == IF st.users.kind = "absent" THEN <<>>
                           ELSE parse_csv_to_dict(st.users.lines)
             request == BuildRequest(st.scenario.doc, st.variables.doc,
                                     users_data, seconds)
             test_id == request.test_id
         IN  [outcome |->
                 CASE reply = "ok200" ->
                        Outcome("completed", test_id, "Test execute avec succes")
                   [] reply = "http500" ->
                        Outcome("failed", test_id,
                                "Erreur de communication avec le worker")
                   [] reply = "timeout" ->
                        Outcome("timeout", test_id,
                                "Timeout lors de l'execution du test")
                   [] reply = "connerr" ->
                        Outcome("failed", test_id,
                                "Impossible de contacter le worker")
                   [] OTHER ->
                        Outcome("failed", test_id,
                                "Erreur interne lors de l'execution"),
              requests |-> PostOnce(request, reply)]

(***************************************************************************)
(* Submissions.                                                            *)
(***************************************************************************)
\* The placeholder {{tok}} as text.
Ph(tok) == <<"{", "{">> \o tok \o <<"}", "}">>

GoodStep == [isObj |-> TRUE, hasName |-> TRUE, method |-> "GET", hasUrl |-> TRUE]

ScenarioDoc(items, text) ==
    [root |-> "object", hasName |-> TRUE, steps |-> "list", items |-> items,
     text |-> text]

Str(s) == [kind |-> "str", s |-> s]

Num(n) == [kind |-> "int", n |-> n]

EnvObject(keys) == [kind |-> "object", keys |-> keys, chars |-> <<>>]

VariablesDoc(mode, virtualUsers, totalRequests, environment) ==
    [root |-> "object", mode |-> mode, virtualUsers |-> virtualUsers,
     totalRequests |-> totalRequests, duration |-> NoText, warmup |-> NoText,
     environment |-> environment]

Json(doc) == [enc |-> "ok", doc |-> doc]

Csv(lines) == [enc |-> "ok", lines |-> lines]

NoCsv == [enc |-> "absent", lines |-> <<>>]

Submission(scenario, variables, users) ==
    [scenario |-> scenario, variables |-> variables, users |-> users]

NoSubmission ==
    Submission([enc |-> "none", doc |-> NoScenario],
               [enc |-> "none", doc |-> NoVariables], NoCsv)

\* Valid, with a dataset the scenario reads.
SubUsers ==
    Submission(Json(ScenarioDoc(<<GoodStep>>, <<"a">> \o Ph(<<"user.", "a">>))),
               Json(VariablesDoc(Str("users"), Num(2), NoValue, NoEnv)),
               Csv(<< <<<<"a">>, <<"b">>>>, <<<<"a">>, <<"a">>>> >>))

\* Valid, without a dataset.
SubRequests ==
    Submission(Json(ScenarioDoc(<<GoodStep>>, Ph(<<"env.", "a">>))),
               Json(VariablesDoc(Str("requests"), NoValue, Num(1),
                                 EnvObject({<<"a">>}))),
               NoCsv)

\* mode = requests with totalRequests = 0.
SubZeroRequests ==
    Submission(Json(ScenarioDoc(<<GoodStep>>, <<"b">>)),
               Json(VariablesDoc(Str("requests"), NoValue, Num(0), NoEnv)),
               NoCsv)

\* A scenario text that is not JSON.
SubBadJson ==
    Submission([enc |-> "badjson", doc |-> NoScenario],
               Json(VariablesDoc(Str("users"), Num(1), NoValue, NoEnv)),
               NoCsv)

\* The submissions the clients of the system send.
Submissions == {SubUsers, SubRequests, SubZeroRequests, SubBadJson}

(***************************************************************************)
(* The system: clients call validate and execute on one event loop.  A     *)
(* validate call suspends only while it reads its parts (ValidateReceive); *)
(* from there to its return it runs without suspending (ValidateFinish).   *)
(* An execute call never suspends.                                         *)
(***************************************************************************)
Clients == 1..NumClients

Idle == [st |-> "idle"]

NoLastOk == [set |-> FALSE, sub |-> NoSubmission, concurrent |-> FALSE]

Init ==
    /\ store = EmptyStore
    /\ inflight = [p \in Clients |-> Idle]
    /\ last = [op |-> "none"]
    /\ lastOk = NoLastOk
    /\ now = 0

\* A validate call arrives and its parts are read.
ValidateReceive(p, sub) ==
    /\ inflight[p].st = "idle"
    /\ inflight' = [inflight EXCEPT
                      ![p] = [st |-> "parsed", sub |-> sub, overlap |-> FALSE]]
    /\ UNCHANGED <<store, last, lastOk, now>>

\* The state a validate call of client p leaves when it returns r.
ValidateReturn(p, sub, r, ok) ==
    /\ store' = r.store
    /\ last' = [op |-> "validate", sub |-> sub, report |-> r.report,
                saving |-> r.saving, saveRaised |-> r.saveRaised,
                checks |-> r.checks]
    /\ lastOk' = IF ok
                 THEN [set |-> TRUE, sub |-> sub,
                       concurrent |-> inflight[p].overlap]
                 ELSE lastOk
    /\ inflight' = [q \in Clients |->
                      IF q = p THEN Idle
                      ELSE IF ok /\ inflight[q].st = "parsed"
                      THEN [inflight[q] EXCEPT !.overlap = TRUE]
                      ELSE inflight[q]]

ValidateReported(p, sub, r) ==
    ValidateReturn(p, sub, r, r.report.status = "success")

\* The validate call of client p runs to its return.  `overlap` of another
\* call in flight records that a successful call returned during it.
ValidateFinish(p, fail) ==
    /\ inflight[p].st = "parsed"
    /\ ValidateReported(p, inflight[p].sub,
                        validate_files(inflight[p].sub, store, fail))
    /\ UNCHANGED now

\* The state an execute call leaves when it returns r.
ExecuteReturn(r) ==
    last' = [op |-> "execute", outcome |-> r.outcome, requests |-> r.requests]

\* An execute call, the worker answering with `reply`.
Execute(reply) ==
    /\ ExecuteReturn(execute_test(store, now, reply))
    /\ UNCHANGED <<store, inflight, lastOk, now>>

\* The wall clock passes a second.
Tick ==
    /\ now < MaxClock
    /\ now' = now + 1
    /\ UNCHANGED <<store, inflight, last, lastOk>>

\* One caller: every call runs to its return before the next one starts.
Next ==
    \/ \E sub \in Submissions : ValidateReceive(1, sub)
    \/ \E fail \in SaveFailures : ValidateFinish(1, fail)
    \/ \E reply \in WorkerReplies : Execute(reply)
    \/ Tick

Spec == Init /\ [][Next]_vars

\* NumClients callers: validate calls overlap, and execute calls come between.
NextConcurrent ==
    \/ \E p \in Clients, sub \in Submissions : ValidateReceive(p, sub)
    \/ \E p \in Clients, fail \in SaveFailures : ValidateFinish(p, fail)
    \/ \E reply \in WorkerReplies : Execute(reply)

SpecConcurrent == Init /\ [][NextConcurrent]_vars

(***************************************************************************)
(* One validate call on each submission of a wide set: every shape of the  *)
(* scenario document, every value kind of the variables document's fields, *)
(* every shape of the dataset, each with a few of the other two parts.     *)
(***************************************************************************)
StepKinds ==
    {GoodStep,
     [GoodStep EXCEPT !.isObj = FALSE],
     [GoodStep EXCEPT !.hasName = FALSE],
     [GoodStep EXCEPT !.method = "missing"],
     [GoodStep EXCEPT !.method = "FETCH"],
     [GoodStep EXCEPT !.hasUrl = FALSE]}

StepLists == UNION {[1..n -> StepKinds] : n \in 0..MaxSteps}

FnTexts ==
    {<<"a">>,
     Ph(<<"user.", "a">>),
     Ph(<<"user.", "a">>) \o Ph(<<"user.", "a">>) \o Ph(<<"env.", "b">>),
     Ph(<<"env.", "a">>),
     Ph(<<"user.", "a">>) \o <<"a">> \o Ph(<<"user.", "b">>),
     Ph(<<"env.", "a">>) \o Ph(<<"env.", "b">>),
     Ph(<<"a">>),
     <<"{", "{", "user.", "a", "}">>,
     Ph(<<"user.", "e_acute">>),
     Ph(<<"user.", "user.", "a">>) \o Ph(<<"user.", "a">>),
     Ph(<<"env.", "a", "env.">>) \o Ph(<<"b", "user.">>)}

FnScenarioDocs ==
    {[root |-> "other", hasName |-> FALSE, steps |-> "missing",
      items |-> <<>>, text |-> t] : t \in FnTexts}
    \cup {[root |-> "object", hasName |-> h, steps |-> k, items |-> <<>>,
           text |-> t] :
              h \in BOOLEAN, k \in {"missing", "other"}, t \in FnTexts}
    \cup {[root |-> "object", hasName |-> h, steps |-> "list", items |-> it,
           text |-> t] : h \in BOOLEAN, it \in StepLists, t \in FnTexts}

\* The JSON value kinds of virtualUsers and totalRequests; n is the number
\* Python compares with 0 (True is 1, False is 0; 1.5 for the float).
CountValues ==
    {NoValue, Num(0 - 1), Num(0), Num(1), Num(2),
     [kind |-> "float", n |-> 1], [kind |-> "str", n |-> 0],
     [kind |-> "bool", n |-> 1], [kind |-> "bool", n |-> 0],
     [kind |-> "null", n |-> 0], [kind |-> "array", n |-> 0],
     [kind |-> "object", n |-> 0]}

ModeValues ==
    {NoText, Str("users"), Str("requests"), Str("burst"),
     [kind |-> "other", s |-> ""]}

EnvValues ==
    {NoEnv, EnvObject({}), EnvObject({<<"a">>}), EnvObject({<<"a">>, <<"b">>}),
     [kind |-> "null", keys |-> {}, chars |-> <<>>],
     [kind |-> "int", keys |-> {}, chars |-> <<>>],
     [kind |-> "str", keys |-> {}, chars |-> <<"b", "a">>],
     [kind |-> "array", keys |-> {<<"a">>}, chars |-> <<>>]}

FnVariablesDocs ==
    {[NoVariables EXCEPT !.root = "other"]}
    \cup {VariablesDoc(m, vu, tr, e) :
              m \in ModeValues, vu \in CountValues,
              tr \in {NoValue, Num(1)}, e \in EnvValues}
    \cup {VariablesDoc(m, vu, tr, e) :
              m \in ModeValues, vu \in {NoValue, Num(1)},
              tr \in CountValues, e \in EnvValues}

FnDatasets ==
    {NoCsv,
     [enc |-> "badutf8", lines |-> <<>>],
     Csv(<<>>),
     Csv(<< <<>>, <<<<"a">>>> >>),
     Csv(<< <<<<" ">>, <<>>>>, <<<<"a">>, <<"b">>>> >>),
     Csv(<< <<<<"a">>>> >>),
     Csv(<< <<<<"a">>>>, <<>>, <<<<" ">>>> >>),
     Csv(<< <<<<"a">>>>, <<<<"b">>>> >>),
     Csv(<< <<<<" ", "a", " ">>, <<"b">>>>, <<<<"a">>, <<"b", " ">>>> >>),
     Csv(<< <<<<"a">>, <<"b">>>>, <<<<"a">>>> >>)}

CoreScenarios ==
    {Json(ScenarioDoc(<<GoodStep>>, t)) :
        t \in {<<"a">>,
               Ph(<<"user.", "a">>) \o Ph(<<"env.", "b">>),
               Ph(<<"env.", "a">>),
               Ph(<<"user.", "a">>) \o Ph(<<"user.", "b">>)}}
    \cup {Json(ScenarioDoc(<<>>, Ph(<<"user.", "a">>)))}

CoreVariables ==
    {Json(VariablesDoc(Str("users"), Num(1), NoValue, NoEnv)),
     Json(VariablesDoc(Str("requests"), NoValue, Num(1),
                       EnvObject({<<"a">>, <<"b">>})))}

CoreDatasets == {NoCsv, Csv(<< <<<<"a">>, <<"b">>>>, <<<<"a">>, <<"a">>>> >>)}

Undecodable(doc) == {[enc |-> e, doc |-> doc] : e \in {"badjson", "badutf8"}}

FnSubmissions ==
    {Submission(Json(s), v, d) :
        s \in FnScenarioDocs, v \in CoreVariables, d \in CoreDatasets}
    \cup {Submission(s, Json(v), d) :
        s \in CoreScenarios, v \in FnVariablesDocs, d \in CoreDatasets}
    \cup {Submission(s, v, d) :
        s \in CoreScenarios, v \in CoreVariables, d \in FnDatasets}
    \cup {Submission(s, v, d) :
        s \in Undecodable(NoScenario), v \in CoreVariables, d \in FnDatasets}
    \cup {Submission(s, v, d) :
        s \in CoreScenarios, v \in Undecodable(NoVariables), d \in FnDatasets}

\* The call has arrived, on an empty store.
InitFn ==
    /\ store = EmptyStore
    /\ \E sub \in FnSubmissions :
          inflight = [p \in Clients |->
                        IF p = 1
                        THEN [st |-> "parsed", sub |-> sub, overlap |-> FALSE]
                        ELSE Idle]
    /\ last = [op |-> "none"]
    /\ lastOk = NoLastOk
    /\ now = 0

NextFn == \E fail \in SaveFailures : ValidateFinish(1, fail)

SpecFn == InitFn /\ [][NextFn]_vars

(***************************************************************************)
(* One caller validates the same three artifacts MaxRuns times in a row,   *)
(* nobody else writing in between, from each of a few stores.  The fault   *)
(* of the save step is the condition of the store's directory, the same    *)
(* for every run.                                                          *)
(***************************************************************************)
NoFailure == [at |-> 0, how |-> "none"]

\* The stores a run can start from: empty, holding a validated set, holding
\* what a save that failed part-way left.
StartStores ==
    {EmptyStore,
     Save(EmptyStore, SubUsers, NoFailure),
     Save(EmptyStore, SubRequests, [at |-> 2, how |-> "write"])}

RepeatSubmissions ==
    Submissions
    \cup {Submission(s, v, d) :
             s \in CoreScenarios,
             v \in CoreVariables \cup Undecodable(NoVariables)
                   \cup {Json(VariablesDoc(Str("users"), Num(1), NoValue,
                                           [kind |-> "null", keys |-> {},
                                            chars |-> <<>>]))},
             d \in CoreDatasets \cup {Csv(<< <<<<"a">>>> >>)}}

InitRepeat ==
    /\ store \in StartStores
    /\ \E sub \in RepeatSubmissions, fail \in SaveFailures :
          inflight = [p \in Clients |->
                        IF p = 1
                        THEN [st |-> "parsed", sub |-> sub, overlap |-> FALSE,
                              fail |-> fail]
                        ELSE Idle]
    /\ last = [op |-> "none"]
    /\ lastOk = NoLastOk
    /\ now = 0

\* The number of runs that have returned.
RunsDone == IF last.op = "none" THEN 0 ELSE last.run

\* The state a run leaves when it returns r: the caller keeps its artifacts
\* for the next run; `first` and `from` record the first run's report and
\* the store it started from.
RevalidateReturn(r) ==
    /\ store' = r.store
    /\ last' = [op |-> "validate", sub |-> inflight[1].sub,
                report |-> r.report, saving |-> r.saving,
                saveRaised |-> r.saveRaised, checks |-> r.checks,
                run |-> RunsDone + 1,
                first |-> IF last.op = "none" THEN r.report ELSE last.first,
                from |-> IF last.op = "none" THEN store ELSE last.from]

\* One more validate call on the same three artifacts.
Revalidate ==
    /\ inflight[1].st = "parsed"
    /\ RunsDone < MaxRuns
    /\ RevalidateReturn(validate_files(inflight[1].sub, store, inflight[1].fail))
    /\ UNCHANGED <<inflight, lastOk, now>>

NextRepeat == Revalidate

SpecRepeat == InitRepeat /\ [][NextRepeat]_vars

(***************************************************************************)
(* The entry surfaces.  The routers of upload.py and execution.py declare  *)
(* Depends(get_current_user) on their handlers; the application of main.py *)
(* declares the same two handlers without it.  A dependency is resolved    *)
(* before the body of the handler runs.                                    *)
(***************************************************************************)
Surfaces == {"router", "main"}

\* What a request carries as credentials: no Authorization header, a token
\* that does not decode (malformed, wrong signature, expired), a token that
\* decodes without a "sub" claim, a token that decodes to a username.
Credentials == {"none", "garbage", "nosub", "valid"}

\* verify_token: the username, None, or an exception.  When jwt.decode
\* raises, the except clause names jwt.PyJWTError of the jose package: the
\* result is None when that name exists and matches, an exception when not.
verify_token(token) ==
    IF token = "valid" THEN {"username"}
    ELSE IF token = "nosub" THEN {"None"}
    ELSE {"None", "raises"}

\* get_current_user: the ways the dependency can end.  HTTPBearer refuses a
\* request without a bearer token before verify_token is called.
get_current_user(credentials) ==
    IF credentials = "none" THEN {"403"}
    ELSE {IF r = "username" THEN "admit"
          ELSE IF r = "None" THEN "401" ELSE "500" :
              r \in verify_token(credentials)}

Admitted(call, surface, verified) ==
    [op |-> "admitted", call |-> call, surface |-> surface,
     verified |-> verified, code |-> "none"]

Rejected(call, surface, code) ==
    [op |-> "rejected", call |-> call, surface |-> surface,
     verified |-> FALSE, code |-> code]

\* A request for validate or execute arrives at a surface and its
\* dependencies are resolved: the handler's body is entered or is not.
Request(surface, credentials, call) ==
    /\ inflight[1].st = "idle"
    /\ IF surface = "router"
       THEN \E end \in get_current_user(credentials) :
                last' = IF end = "admit" THEN Admitted(call, surface, TRUE)
                        ELSE Rejected(call, surface, end)
       ELSE last' = Admitted(call, surface, FALSE)
    /\ UNCHANGED <<store, inflight, lastOk, now>>

\* The body of validate_files starts: the parts are read.
AuthValidateReceive(sub) ==
    /\ last.op = "admitted"
    /\ last.call = "validate"
    /\ ValidateReceive(1, sub)

\* The body of execute_test runs.
AuthExecute(reply) ==
    /\ last.op = "admitted"
    /\ last.call = "execute"
    /\ Execute(reply)

NextAuth ==
    \/ \E surface \in Surfaces, credentials \in Credentials,
          call \in {"validate", "execute"} : Request(surface, credentials, call)
    \/ \E sub \in Submissions : AuthValidateReceive(sub)
    \/ \E fail \in SaveFailures : ValidateFinish(1, fail)
    \/ \E reply \in WorkerReplies : AuthExecute(reply)

SpecAuth == Init /\ [][NextAuth]_vars

(***************************************************************************)
(* What the claims speak of.                                               *)
(***************************************************************************)
HasError(errors, k) == \E i \in 1..Len(errors) : errors[i].k = k

CountOf(errors, k, name) ==
    Cardinality({i \in 1..Len(errors) : errors[i].k = k /\ errors[i].name = name})

\* The store holds exactly the three artifacts of the submission.
StoreHolds(sub) ==
    /\ store.scenario.kind = "data"
    /\ store.scenario.doc = sub.scenario.doc
    /\ store.variables.kind = "data"
    /\ store.variables.doc = sub.variables.doc
    /\ IF sub.users.enc = "absent"
       THEN store.users.kind = "absent"
       ELSE store.users.kind = "data" /\ store.users.lines = sub.users.lines

\* The configuration an execute call builds from the submission's artifacts.
ConfigOf(sub) ==
    BuildRequest(sub.scenario.doc, sub.variables.doc,
                 IF sub.users.enc = "absent" THEN <<>>
                 ELSE parse_csv_to_dict(sub.users.lines),
                 0).config

\* The requests an execute call made now would send, the worker answering 200.
RequestsNow == execute_test(store, now, "ok200").requests

\* A validate call has just returned.
ValidateReturned == last.op = "validate"

\* A validate call has just returned after reaching its save step with errors.
ReturnedWithErrorsAtSave ==
    /\ last.op = "validate"
    /\ last.checks.parsed
    /\ last.report.status = "error"
    /\ ~last.saving

(***************************************************************************)
(* C1.  Every artifact held in the store was written by a validate call    *)
(* whose report has status success; a call whose save step fails part-way  *)
(* and returns status error leaves none of its artifacts in the store.     *)
(***************************************************************************)
C1_StoreOnlyFromSuccess ==
    /\ store.scenario.kind # "absent" => store.scenario.by = "success"
    /\ store.variables.kind # "absent" => store.variables.by = "success"
    /\ store.users.kind # "absent" => store.users.by = "success"

(***************************************************************************)
(* C2.  After a successful validate call submitted without a dataset the   *)
(* store holds no dataset, and the next execute call builds a request      *)
(* whose usersData is the empty row sequence.                              *)
(***************************************************************************)
C2_SuccessWithoutDatasetClearsDataset ==
    (/\ last.op = "validate"
     /\ last.report.status = "success"
     /\ last.sub.users.enc = "absent")
    => /\ store.users.kind = "absent"
       /\ \A i \in 1..Len(RequestsNow) : RequestsNow[i].config.usersData = <<>>

(***************************************************************************)
(* C3.  When two submissions that both validate successfully are processed *)
(* concurrently, the store ends up holding the scenario, variables and     *)
(* dataset of the second writer alone, and an execute call builds its      *)
(* request from those.                                                     *)
(***************************************************************************)
C3_ConcurrentSuccessesLeaveSecondWriter ==
    /\ (/\ last.op = "validate"
        /\ last.report.status = "success"
        /\ lastOk.concurrent)
       => StoreHolds(last.sub)
    /\ (/\ last.op = "execute"
        /\ lastOk.set
        /\ lastOk.concurrent)
       => \A i \in 1..Len(last.requests) :
              last.requests[i].config = ConfigOf(lastOk.sub)

(***************************************************************************)
(* C4.  Every outcome returned by an execute call carries a generated,     *)
(* non-empty testId, on every branch.                                      *)
(***************************************************************************)
C4_EveryOutcomeCarriesTestId ==
    last.op = "execute"
    => /\ last.outcome.status # "raised"
       /\ last.outcome.test_id # <<>>

(***************************************************************************)
(* C5.  A validate call whose error list is non-empty when it reaches the  *)
(* save step writes nothing, so a following execute call builds its        *)
(* request only from the artifacts of the last earlier successful          *)
(* submission, or is refused when there is none.                           *)
(***************************************************************************)
\* The part of C5 about the call itself: the three files are unchanged.
ErrorsAtSaveWriteNothing ==
    [][ReturnedWithErrorsAtSave' /\ inflight' # inflight => store' = store]_vars

C5_AfterErrorsOnlyLastSuccess ==
    ReturnedWithErrorsAtSave
    => IF lastOk.set
       THEN /\ StoreHolds(lastOk.sub)
            /\ \A i \in 1..Len(RequestsNow) :
                   RequestsNow[i].config = ConfigOf(lastOk.sub)
       ELSE RequestsNow = <<>>
            /\ (store.scenario.kind = "absent" \/ store.variables.kind = "absent")

(***************************************************************************)
(* What the claims about one validate call speak of.                       *)
(***************************************************************************)
CrossKinds == {"missing_column", "missing_env", "mode_users_without_csv"}

\* All three parts of the submission decode.
Decodes(sub) ==
    /\ sub.scenario.enc = "ok"
    /\ sub.variables.enc = "ok"
    /\ sub.users.enc \in {"absent", "ok"}

\* The dataset's columns: none when there is no dataset.
ColumnsOf(sub) ==
    IF sub.users.enc = "absent" THEN <<>>
    ELSE validate_csv_structure(sub.users.lines).columns

\* The names of the two checked categories.
UserNamesOf(sub) == extract_variables_from_scenario(sub.scenario.doc).user

EnvNamesOf(sub) == extract_variables_from_scenario(sub.scenario.doc).env

\* The keys of the environment section: none unless it is a mapping.
EnvKeysOf(sub) ==
    IF sub.variables.doc.environment.kind = "object"
    THEN sub.variables.doc.environment.keys ELSE {}

ModeIs(sub, mode) ==
    /\ sub.variables.doc.root = "object"
    /\ sub.variables.doc.mode.kind = "str"
    /\ sub.variables.doc.mode.s = mode

\* A JSON value that is a positive integer.
PositiveInteger(v) == v.kind = "int" /\ v.n > 0

\* The cross-reference validator ran in the validate call that just returned.
CrossRan == last.op = "validate" /\ last.checks.crossRan

(***************************************************************************)
(* C6.  In every validate call the cross-reference validator runs if and   *)
(* only if the scenario check and the variables check both returned zero   *)
(* errors; dataset errors never prevent it, and when either structural     *)
(* check has an error no cross-reference error appears in the report.      *)
(***************************************************************************)
C6_CrossRunsIffStructureClean ==
    last.op = "validate"
    => /\ last.checks.crossRan
          <=> (/\ last.checks.parsed
               /\ last.checks.scenario_errors = <<>>
               /\ last.checks.variables_errors = <<>>)
       /\ (last.checks.scenario_errors # <<>>
           \/ last.checks.variables_errors # <<>>)
          => \A i \in 1..Len(last.report.errors) :
                 last.report.errors[i].k \notin CrossKinds

\* The validator ran although the dataset check reported an error.
C6_Witness ==
    /\ CrossRan
    /\ last.checks.csv_errors # <<>>
    /\ last.report.status = "error"

(***************************************************************************)
(* C7.  For every scenario document with an empty steps sequence the       *)
(* validation fails with the must-have-at-least-one-step error and the     *)
(* cross-reference step does not run, whatever the variables document and  *)
(* the dataset are.                                                        *)
(***************************************************************************)
EmptySteps(sub) ==
    /\ sub.scenario.doc.root = "object"
    /\ sub.scenario.doc.steps = "list"
    /\ sub.scenario.doc.items = <<>>

C8_UsersModeWithoutColumns ==
    (CrossRan /\ ModeIs(last.sub, "users") /\ ColumnsOf(last.sub) = <<>>)
    => /\ last.report.status = "error"
       /\ HasError(last.checks.consistency_errors, "mode_users_without_csv")
       /\ \A n \in Range(UserNamesOf(last.sub)) :
              CountOf(last.checks.consistency_errors, "missing_column", n) = 1

(***************************************************************************)
(* C9.  When the cross-reference validator runs, its error list holds      *)
(* exactly one error for each name of the user category that is not a      *)
(* column of the dataset, exactly one for each name of the env category    *)
(* that is not a key of the environment section, and none for a name that  *)
(* is present.                                                             *)
(***************************************************************************)
C9_OneErrorPerMissingName ==
    CrossRan
    => /\ last.report.status # "raised"
       /\ \A n \in Range(UserNamesOf(last.sub)) :
              CountOf(last.checks.consistency_errors, "missing_column", n)
                  = IF Contains(ColumnsOf(last.sub), n) THEN 0 ELSE 1
       /\ \A n \in Range(EnvNamesOf(last.sub)) :
              CountOf(last.checks.consistency_errors, "missing_env", n)
                  = IF n \in EnvKeysOf(last.sub) THEN 0 ELSE 1

(***************************************************************************)
(* C10.  The variables check returns an error whenever mode = users and    *)
(* virtualUsers is missing or anything other than a positive integer, and  *)
(* whenever mode = requests and totalRequests is missing or anything other *)
(* than a positive integer, for every JSON value kind of the field.        *)
(***************************************************************************)
C10_CountMustBePositiveInteger ==
    (last.op = "validate" /\ last.checks.parsed)
    => /\ (/\ ModeIs(last.sub, "users")
           /\ ~PositiveInteger(last.sub.variables.doc.virtualUsers))
          => last.checks.variables_errors # <<>>
       /\ (/\ ModeIs(last.sub, "requests")
           /\ ~PositiveInteger(last.sub.variables.doc.totalRequests))
          => last.checks.variables_errors # <<>>

(***************************************************************************)
(* What the claims about the scanner and the classifier speak of.          *)
(***************************************************************************)
\* The names X whose placeholder {{user.X}} is looked for in a scenario.
PlaceholderNames == {<<"a">>, <<"b">>, <<"e_acute">>, <<"user.", "a">>}

\* The placeholder {{user.X}} appears in the strings of the scenario.
UserPlaceholderAppears(X, sub) ==
    IsSubstring(Ph(<<"user.">> \o X), sub.scenario.doc.text)

\* The tokens the scanner gives for the scenario of the submission.
ScannedTokens(sub) == extract_variables_from_text(json_dumps(sub.scenario.doc))

TimesIn(s, x) == Cardinality({i \in 1..Len(s) : s[i] = x})

\* The sequence without its repetitions, in order of first appearance.
RECURSIVE FirstAppearances(_, _)
FirstAppearances(s, acc) ==
    IF s = <<>> THEN acc
    ELSE FirstAppearances(Tail(s),
                          IF TimesIn(acc, Head(s)) > 0 THEN acc
                          ELSE Append(acc, Head(s)))

\* The tokens that start with the prefix, each without that leading prefix.
WithoutLeadingPrefix(tokens, prefix) ==
    LET sel == SelectSeq(tokens, LAMBDA t : Head(t) = prefix)
    IN  [i \in 1..Len(sel) |-> Tail(sel[i])]

\* The tokens that start with neither prefix.
OtherTokens(tokens) ==
    SelectSeq(tokens, LAMBDA t : Head(t) \notin {"user.", "env."})

ExtractNamesOf(sub) == extract_variables_from_scenario(sub.scenario.doc).extract

(***************************************************************************)
(* C11.  For every placeholder {{user.X}} appearing anywhere in the        *)
(* scenario, any number of times, X appears in the user category exactly   *)
(* once, and each category lists its names in order of first appearance    *)
(* in the scanned text.                                                    *)
(***************************************************************************)
C11_UserNamesOnceInOrder ==
    (last.op = "validate" /\ last.checks.parsed)
    => /\ \A X \in PlaceholderNames :
              UserPlaceholderAppears(X, last.sub)
                  => TimesIn(UserNamesOf(last.sub), X) = 1
       /\ UserNamesOf(last.sub)
              = FirstAppearances(
                    WithoutLeadingPrefix(ScannedTokens(last.sub), "user."), <<>>)
       /\ EnvNamesOf(last.sub)
              = FirstAppearances(
                    WithoutLeadingPrefix(ScannedTokens(last.sub), "env."), <<>>)
       /\ ExtractNamesOf(last.sub)
              = FirstAppearances(OtherTokens(ScannedTokens(last.sub)), <<>>)

(***************************************************************************)
(* C12.  For every scanned token that starts with user. (respectively      *)
(* env.) the name the classifier records is the token with exactly that    *)
(* leading prefix removed and the rest unchanged, also when the rest holds *)
(* user. or env. itself; every other token is recorded whole in extract.   *)
(***************************************************************************)
C12_ExactlyLeadingPrefixRemoved ==
    (last.op = "validate" /\ last.checks.parsed)
    => /\ Range(UserNamesOf(last.sub))
              = Range(WithoutLeadingPrefix(ScannedTokens(last.sub), "user."))
       /\ Range(EnvNamesOf(last.sub))
              = Range(WithoutLeadingPrefix(ScannedTokens(last.sub), "env."))
       /\ Range(ExtractNamesOf(last.sub))
              = Range(OtherTokens(ScannedTokens(last.sub)))

(***************************************************************************)
(* C13.  Every report returned by validate has status error if and only if *)
(* its error list is non-empty, and an empty error list whenever its       *)
(* status is success, on the parse-failure path, the validation-error path *)
(* and the persistence-failure path alike.                                 *)
(***************************************************************************)
ReportReturned == last.op = "validate" /\ last.report.status # "raised"

C13_StatusErrorIffErrors ==
    ReportReturned
    => /\ last.report.status \in {"error", "success"}
       /\ last.report.status = "error" <=> last.report.errors # <<>>
       /\ last.report.status = "success" => last.report.errors = <<>>

\* A report of the persistence-failure path.
C13_Witness ==
    /\ ReportReturned
    /\ last.saveRaised
    /\ last.report.status = "error"
    /\ HasError(last.report.errors, "save_error")

(***************************************************************************)
(* C14.  When the scenario text or the variables text does not decode,     *)
(* validate returns a report with status error carrying exactly one error, *)
(* no structural, dataset or cross-reference validator has run, and        *)
(* nothing is written to the store, whichever of the parts is malformed.   *)
(***************************************************************************)
DoesNotDecode(part) == part.enc \in {"badjson", "badutf8"}

C14_UndecodableIsOneError ==
    (/\ last.op = "validate"
     /\ DoesNotDecode(last.sub.scenario) \/ DoesNotDecode(last.sub.variables))
    => /\ last.report.status = "error"
       /\ Len(last.report.errors) = 1
       /\ last.report.errors[1].k \in {"json_error", "read_error"}
       /\ ~last.checks.parsed
       /\ last.checks.scenario_errors = <<>>
       /\ last.checks.variables_errors = <<>>
       /\ last.checks.csv_errors = <<>>
       /\ ~last.checks.crossRan
       /\ ~last.report.analysis.set
       /\ ~last.saving
       /\ store = EmptyStore

\* The variables do not decode, next to a scenario and a dataset that both
\* have faults of their own.
C14_Witness ==
    /\ last.op = "validate"
    /\ last.sub.scenario.enc = "ok"
    /\ validate_scenario_structure(last.sub.scenario.doc) # <<>>
    /\ DoesNotDecode(last.sub.variables)
    /\ last.sub.users.enc = "ok"
    /\ validate_csv_structure(last.sub.users.lines).errors # <<>>
    /\ Len(last.report.errors) = 1

ReachedRequest == last.op = "execute" /\ last.requests # <<>>

\* Every step in which another execute call returns, after one that returned.
C16_TestIdsDiffer ==
    [][(ReachedRequest /\ ReachedRequest' /\ last' # last)
       => last'.outcome.test_id # last.outcome.test_id]_vars

(***************************************************************************)
(* C19.  Each execute call sends at most one request to the execution      *)
(* worker and never retries: none when the store lacks the scenario or the *)
(* variables document, exactly one when both are present and readable,     *)
(* whatever the worker's reply.                                            *)
(***************************************************************************)
C19_AtMostOneRequest ==
    last.op = "execute"
    => /\ Len(last.requests) <= 1
       /\ (store.scenario.kind = "absent" \/ store.variables.kind = "absent")
          => Len(last.requests) = 0
       /\ (store.scenario.kind = "data" /\ store.variables.kind = "data")
          => Len(last.requests) = 1

\* The worker timed out and was asked once.
C19_Witness ==
    /\ last.op = "execute"
    /\ last.outcome.status = "timeout"
    /\ Len(last.requests) = 1

(***************************************************************************)
(* C18.  For every pair of scenario and variables texts that decode as     *)
(* JSON, whatever the value kinds of their fields, validate returns a      *)
(* report that lists each problem as an error: it never ends in an         *)
(* unhandled exception, and it accepts a reference to an environment name  *)
(* only when the name is a key of an environment mapping.                  *)
(***************************************************************************)
C18_AlwaysReportsKeyMembershipOnly ==
    (/\ last.op = "validate"
     /\ last.sub.scenario.enc = "ok"
     /\ last.sub.variables.enc = "ok")
    => /\ last.report.status \in {"error", "success"}
       /\ last.checks.crossRan
          => \A n \in Range(EnvNamesOf(last.sub)) :
                 n \notin EnvKeysOf(last.sub)
                     => CountOf(last.report.errors, "missing_env", n) > 0

(***************************************************************************)
(* C17.  On every entry surface a validate or execute call made without a  *)
(* verified caller identity is rejected with an authorization failure      *)
(* before any validation work, store read or write, or worker request      *)
(* happens: the body of a handler is entered only for a verified caller,   *)
(* and a refusal is an authorization failure.                              *)
(***************************************************************************)
C17_UnverifiedCallsRejected ==
    /\ last.op = "admitted" => last.verified
    /\ last.op = "rejected" => last.code \in {"401", "403"}
====
